---- MODULE Spec2Model ----
(***************************************************************************)
(* Model of src/app.py: the control thread of LiveWallpaperManager         *)
(* (start_wallpapers, stop_wallpapers, select_video, update_fps) and the   *)
(* rendering threads it creates (VideoPlayerThread.run), interleaved at    *)
(* statement granularity.                                                  *)
(***************************************************************************)
EXTENDS Integers, Sequences, FiniteSets, TLC

\* ------------------------------------------------------------ bounds
\* Spec explores the life cycle: several sessions and configuration edits,
\* with short playback.
\* requests of the user: start_wallpapers calls that create a thread, and
\* select_video / update_fps calls
MaxRequests == 2
\* ticks of the playback loop per session
LifecycleTicks == 1
\* decodable frames of a video file
LifecycleFrames == 1

\* SpecPlayback explores one session's playback in depth, without edits.
\* number of start_wallpapers calls that create a thread
PlaybackSessions == 1
MaxTicks == 3
MaxFrames == 2
\* transient failures per session: reads that fail on a decodable frame,
\* BitBlt calls that raise
MaxGlitches == 1

LifecycleLimits ==
    [requests |-> MaxRequests, ticks |-> LifecycleTicks,
     frames |-> LifecycleFrames, glitches |-> 0, faults |-> FALSE]
PlaybackLimits ==
    [requests |-> PlaybackSessions, ticks |-> MaxTicks,
     frames |-> MaxFrames, glitches |-> MaxGlitches, faults |-> FALSE]

\* SpecStop explores stop requests at every point of short sessions, under
\* fair scheduling of the rendering thread.
StopLimits ==
    [requests |-> PlaybackSessions, ticks |-> LifecycleTicks,
     frames |-> LifecycleFrames, glitches |-> 0, faults |-> FALSE]

\* SpecFaults explores short sessions in which any call of run() may raise.
FaultLimits ==
    [requests |-> PlaybackSessions, ticks |-> LifecycleTicks,
     frames |-> LifecycleFrames, glitches |-> 0, faults |-> TRUE]

\* ------------------------------------------------- program constants
DefaultFps == 30
FpsItems == {24, 30, 60, 120}

\* ------------------------------------------------------ environment
\* The drawing resources of run(), by the local that holds them.
Kinds == {"hwnd_dc", "mfc_dc", "save_dc", "bmp"}

\* Video paths: empty (or missing key), a file cv2 opens, a file it cannot.
EmptyPath == ""
GoodPath == "a.mp4"
BadPath == "missing.mp4"

Mon(h, x, y, w, ht) == [handle |-> h, x |-> x, y |-> y, width |-> w, height |-> ht]

\* f"monitor_{monitor['handle']}"
MonitorId(h) == <<"monitor", h>>

\* What EnumDisplayMonitors can report: nothing, one monitor, two monitors
\* (the second left of the primary, at a negative x).
Layouts ==
    { <<>>,
      << Mon(1, 0, 0, 1, 1) >>,
      << Mon(1, 0, 0, 2, 1), Mon(2, -2, 0, 2, 2) >> }

\* SpecGeometry explores the bounding box of run() over many arrangements:
\* up to MaxMonitors monitors side by side or one above the other, each
\* starting at a coordinate in -MaxCoord..MaxCoord.
MaxMonitors == 3
MaxCoord == 1
MonitorSizes == {1, 2}

Spans == { [at |-> a, len |-> l] : a \in (0 - MaxCoord)..MaxCoord, l \in MonitorSizes }
SpanSeqs == UNION { [1..n -> Spans] : n \in 1..MaxMonitors }
Rows == { [i \in 1..Len(q) |-> Mon(i, q[i].at, 0, q[i].len, 1)] : q \in SpanSeqs }
Columns == { [i \in 1..Len(q) |-> Mon(i, 0, q[i].at, 1, q[i].len)] : q \in SpanSeqs }
GeometryLayouts == Layouts \cup Rows \cup Columns

\* The geometry an earlier run of the program stored in wallpaper_config.json.
SavedInfo(h) == IF h = 1 THEN Mon(1, 0, 0, 2, 1) ELSE Mon(2, -2, 0, 2, 2)

Entry(h, path, fps) ==
    [id |-> MonitorId(h), video_path |-> path, monitor_info |-> SavedInfo(h), fps |-> fps]

\* Contents of wallpaper_config.json when the program starts.
InitialFiles ==
    { <<>> }
    \cup { << Entry(h, p, DefaultFps) >> : h \in {1, 2}, p \in {EmptyPath, GoodPath, BadPath} }
    \cup { << Entry(1, GoodPath, 60), Entry(2, GoodPath, 24) >>,
           << Entry(1, BadPath, 30), Entry(2, GoodPath, 60) >>,
           << Entry(2, GoodPath, 120), Entry(1, BadPath, 30) >>,
           << Entry(1, EmptyPath, 30), Entry(2, BadPath, 30) >> }

\* ------------------------------------------------------ pure helpers
SeqToSet(q) == { q[i] : i \in 1..Len(q) }

MinOf(S) == CHOOSE m \in S : \A v \in S : m <= v
MaxOf(S) == CHOOSE m \in S : \A v \in S : m >= v

\* lines 103-104 of run(), for a non-empty monitor list
MinX(monitors) == MinOf({ monitors[i].x : i \in 1..Len(monitors) })
MinY(monitors) == MinOf({ monitors[i].y : i \in 1..Len(monitors) })

\* a width that forgets the offset of the leftmost monitor
TotalWidth_nomin(monitors) ==
    MaxOf({ monitors[i].x + monitors[i].width : i \in 1..Len(monitors) })

\* lines 105-106 of run()
TotalWidth(monitors) ==
    MaxOf({ monitors[i].x + monitors[i].width - MinX(monitors) : i \in 1..Len(monitors) })
TotalHeight(monitors) ==
    MaxOf({ monitors[i].y + monitors[i].height - MinY(monitors) : i \in 1..Len(monitors) })

\* dict lookup on the insertion-ordered monitor_configs
KeyIndex(cfg, mid) ==
    IF \E i \in 1..Len(cfg) : cfg[i].id = mid
    THEN CHOOSE i \in 1..Len(cfg) : cfg[i].id = mid
    ELSE 0

\* monitor_configs[mid] = e : an existing key keeps its position, a new key
\* is appended
DictSet(cfg, mid, e) ==
    IF KeyIndex(cfg, mid) = 0 THEN Append(cfg, e)
    ELSE [cfg EXCEPT ![KeyIndex(cfg, mid)] = e]

\* cv2.VideoCapture(path).isOpened()
IsOpened(path) == path = GoodPath

\* an interval rounded to the nearest millisecond
PacingInterval_round(fps) == (1000 + fps \div 2) \div fps

\* int(1000 / fps)
PacingInterval(fps) == 1000 \div fps

\* ------------------------------------------------------------ state
VARIABLES
    os_monitors,      \* what get_monitors() returns
    config_file,      \* wallpaper_config.json
    monitor_configs,  \* LiveWallpaperManager.monitor_configs (one dict object)
    monitor_widgets,  \* monitor id -> monitor_widgets[id]['monitor_info']
    video_player,     \* LiveWallpaperManager.video_player: session number or 0 (None)
    ctl,              \* position of the control (GUI) thread
    th,               \* the VideoPlayerThread objects, by session number
    nstarts,          \* threads created so far
    nedits,           \* configuration edits so far
    acquired,         \* per resource kind: acquisitions so far
    released,         \* per resource kind: releases so far
    lim               \* the limits of the exploration, fixed by Init

vars == << os_monitors, config_file, monitor_configs, monitor_widgets, video_player,
           ctl, th, nstarts, nedits, acquired, released, lim >>

Sessions == 1..(IF MaxRequests > PlaybackSessions THEN MaxRequests ELSE PlaybackSessions)

NoItem == [id |-> MonitorId(0), video_path |-> EmptyPath,
           monitor_info |-> Mon(0, 0, 0, 0, 0), fps |-> 0]

\* A VideoPlayerThread that does not exist yet; the locals are those of
\* lines 85-90.
NoThread ==
    [ pc |-> "none",
      running |-> FALSE,
      stopped |-> FALSE,        \* stop() has returned for this thread
      worker_w |-> FALSE,
      held |-> {},              \* drawing resources currently held
      bmp_obj |-> FALSE,        \* bmp is bound and line 190 has not run yet
      min_x |-> 0, min_y |-> 0, total_width |-> 0, total_height |-> 0,
      it_size |-> 0, it_idx |-> 0,   \* the iterator of monitor_config.items()
      cur |-> NoItem,           \* the (monitor_id, config) the for loop bound
      alias |-> FALSE,          \* cur is still the dict object stored under its key
      caps |-> <<>>,
      caps_open |-> FALSE,      \* the VideoCapture objects of caps are unreleased
      nopened |-> 0,            \* VideoCapture objects of this session that opened
      ci |-> 0,                 \* position in caps.items()
      fps |-> 0,                \* the local fps
      blitted |-> {}, skipped |-> {},   \* caps indices drawn / skipped this tick
      cleared |-> FALSE,
      nclear |-> 0, nblit |-> 0, npresent |-> 0,
      present_ok |-> TRUE,      \* the last BitBlt did not raise
      late |-> 0,               \* BitBlt calls made with self.running False
      ticks |-> 0,
      sleep |-> 0,              \* argument of the last cv2.waitKey
      live |-> 0,               \* the rate line 173 emitted in the tick just ended (0: none)
      glitches |-> 0,
      errors |-> <<>>,          \* messages emitted on error_occurred
      fault |-> "none",         \* the exception the except clause caught
      snapshot |-> <<>> ]       \* the assignments as they were at start()

\* ------------------------------------------------------------- Init
\* __init__: init_ui enumerates the monitors, load_config reads the file and
\* overrides the widgets' monitor_info with the stored one (line 320).
LoadWidgets(monitors, cfg) ==
    [ mid \in { MonitorId(monitors[i].handle) : i \in 1..Len(monitors) } |->
        IF KeyIndex(cfg, mid) # 0 THEN cfg[KeyIndex(cfg, mid)].monitor_info
        ELSE (CHOOSE m \in SeqToSet(monitors) : MonitorId(m.handle) = mid) ]

InitFrom(limits, layouts, files) ==
    /\ lim = limits
    /\ os_monitors \in layouts
    /\ config_file \in { [exists |-> FALSE, data |-> <<>>] }
                       \cup { [exists |-> TRUE, data |-> f] : f \in files }
    /\ monitor_configs = config_file.data
    /\ monitor_widgets = LoadWidgets(os_monitors, config_file.data)
    /\ video_player = 0
    /\ ctl = [pc |-> "idle", cont |-> "none"]
    /\ th = [s \in Sessions |-> NoThread]
    /\ nstarts = 0
    /\ nedits = 0
    /\ acquired = [k \in Kinds \cup {"cap"} |-> 0]
    /\ released = [k \in Kinds \cup {"cap"} |-> 0]

InitWith(limits) == InitFrom(limits, Layouts, InitialFiles)

Init == InitWith(LifecycleLimits)
InitPlayback == InitWith(PlaybackLimits)
InitStop == InitWith(StopLimits)
InitFaults == InitWith(FaultLimits)

\* no configuration file, and any of the monitor arrangements
InitGeometry == InitFrom(PlaybackLimits, GeometryLayouts, {})

\* ------------------------------------------------- the control thread
\* An exception that leaves run(): PyQt ends the process on an unhandled
\* exception in a reimplemented virtual, so nothing runs after it.
HostAborted == \E s \in Sessions : th[s].pc = "escaped"

\* a start_wallpapers that never stops the thread it replaces
IsRunning_never(s) == FALSE

\* QThread.isRunning(): started and not yet finished
IsRunning(s) == th[s].pc \notin {"none", "finished"}

\* a stop() that does not join the thread
WaitReturns_nojoin(s) == TRUE

\* QThread.wait() returns once the thread has finished
WaitReturns(s) == th[s].pc = "finished"

\* save_config: every entry rewritten with its three keys
save_config(cfg) == [exists |-> TRUE, data |-> cfg]

\* VideoPlayerThread(self.monitor_configs) ... start(): lines 339-342
NewThread ==
    [NoThread EXCEPT !.pc = "find", !.running = TRUE, !.snapshot = monitor_configs]

\* VideoPlayerThread.stop(), first statement
SetStopFlag(t) == [t EXCEPT !.running = FALSE]

\* start_wallpapers, lines 335-342
start_wallpapers ==
    /\ ~HostAborted
    /\ ctl.pc = "idle"
    /\ nstarts + nedits < lim.requests
    /\ IF video_player # 0 /\ IsRunning(video_player)
       THEN /\ th' = [th EXCEPT ![video_player] = SetStopFlag(@)]
            /\ ctl' = [pc |-> "wait", cont |-> "start"]
            /\ UNCHANGED << video_player, nstarts >>
       ELSE /\ th' = [th EXCEPT ![nstarts + 1] = NewThread]
            /\ video_player' = nstarts + 1
            /\ nstarts' = nstarts + 1
            /\ UNCHANGED ctl
    /\ UNCHANGED << os_monitors, config_file, monitor_configs, monitor_widgets,
                    nedits, acquired, released, lim >>

\* stop_wallpapers, lines 344-347, up to the wait() inside stop(); without a
\* video_player the handler does nothing
stop_wallpapers ==
    /\ ~HostAborted
    /\ ctl.pc = "idle"
    /\ video_player # 0
    /\ th' = [th EXCEPT ![video_player] = SetStopFlag(@)]
    /\ ctl' = [pc |-> "wait", cont |-> "stop"]
    /\ UNCHANGED << os_monitors, config_file, monitor_configs, monitor_widgets,
                    video_player, nstarts, nedits, acquired, released, lim >>

\* wait() returns, stop() returns, video_player = None; start_wallpapers then
\* goes on to create and start the new thread
wait_returns ==
    /\ ~HostAborted
    /\ ctl.pc = "wait"
    /\ WaitReturns(video_player)
    /\ ctl' = [pc |-> "idle", cont |-> "none"]
    /\ IF ctl.cont = "start"
       THEN /\ th' = [th EXCEPT ![video_player].stopped = TRUE,
                                ![nstarts + 1] = NewThread]
            /\ video_player' = nstarts + 1
            /\ nstarts' = nstarts + 1
       ELSE /\ th' = [th EXCEPT ![video_player].stopped = TRUE]
            /\ video_player' = 0
            /\ UNCHANGED nstarts
    /\ UNCHANGED << os_monitors, config_file, monitor_configs, monitor_widgets,
                    nedits, acquired, released, lim >>

\* A rendering thread that has bound `config` to the dict stored under mid
\* sees an in-place change of that dict.
FpsSeenBy(t, mid, fps) ==
    IF t.pc = "open" /\ t.alias /\ t.cur.id = mid
    THEN [t EXCEPT !.cur.fps = fps] ELSE t

\* ... and loses the alias when the key is rebound to a new dict.
RebindSeenBy(t, mid) ==
    IF t.cur.id = mid THEN [t EXCEPT !.alias = FALSE] ELSE t

\* select_video, lines 283-299, with a file chosen in the dialog
select_video(mid, file_path) ==
    /\ ~HostAborted
    /\ ctl.pc = "idle"
    /\ nstarts + nedits < lim.requests
    /\ mid \in DOMAIN monitor_widgets
    /\ file_path # EmptyPath
    /\ monitor_configs' =
          DictSet(monitor_configs, mid,
                  [id |-> mid, video_path |-> file_path,
                   monitor_info |-> monitor_widgets[mid], fps |-> DefaultFps])
    /\ config_file' = save_config(monitor_configs')
    /\ th' = [s \in Sessions |-> RebindSeenBy(th[s], mid)]
    /\ nedits' = nedits + 1
    /\ UNCHANGED << os_monitors, monitor_widgets, video_player, ctl, nstarts,
                    acquired, released, lim >>

\* update_fps, lines 301-305; fps is the text of the combo box the slot reads
update_fps(mid, fps) ==
    /\ ~HostAborted
    /\ ctl.pc = "idle"
    /\ nstarts + nedits < lim.requests
    /\ mid \in DOMAIN monitor_widgets
    /\ KeyIndex(monitor_configs, mid) # 0
    /\ monitor_configs' = [monitor_configs EXCEPT ![KeyIndex(monitor_configs, mid)].fps = fps]
    /\ config_file' = save_config(monitor_configs')
    /\ th' = [s \in Sessions |-> FpsSeenBy(th[s], mid, fps)]
    /\ nedits' = nedits + 1
    /\ UNCHANGED << os_monitors, monitor_widgets, video_player, ctl, nstarts,
                    acquired, released, lim >>

\* ----------------------------------------------- the rendering thread
\* error_occurred.emit(msg)
Emit(t, msg) == [t EXCEPT !.errors = Append(@, msg)]

\* run() acquires in this order (lines 98, 99, 100, 108-109).
AcquireOrder == << "hwnd_dc", "mfc_dc", "save_dc", "bmp" >>

\* The finally block releases in this order (lines 181-190): the video
\* sources, save_dc, mfc_dc, hwnd_dc, the bitmap.
FinallyOrder == << "cap", "save_dc", "mfc_dc", "hwnd_dc", "bmp" >>

\* a finally block without the DeleteObject of lines 189-190
MustRelease_nobmp(t, k) ==
    IF k = "cap" THEN t.caps_open /\ t.caps # <<>>
    ELSE IF k = "hwnd_dc" THEN "hwnd_dc" \in t.held /\ t.worker_w
    ELSE k \in t.held /\ k # "bmp"

\* the guards of lines 181-190
MustRelease(t, k) ==
    IF k = "cap" THEN t.caps_open /\ t.caps # <<>>
    ELSE IF k = "hwnd_dc" THEN "hwnd_dc" \in t.held /\ t.worker_w
    ELSE IF k = "bmp" THEN t.bmp_obj
    ELSE k \in t.held

\* except Exception as e: self.error_occurred.emit(str(e)), then finally
Raise(t, msg) == [Emit(t, msg) EXCEPT !.pc = "finally", !.fault = msg]

\* whether the call a step makes raises, where that is explored
MayRaise == IF lim.faults THEN BOOLEAN ELSE {FALSE}

Step(s, t) ==
    /\ th' = [th EXCEPT ![s] = t]
    /\ UNCHANGED << os_monitors, config_file, monitor_configs, monitor_widgets,
                    video_player, ctl, nstarts, nedits, lim >>

Acquire(k) ==
    /\ acquired' = [acquired EXCEPT ![k] = @ + 1]
    /\ UNCHANGED released

\* a not-found branch without its return
NotFound_noreturn(t) == [Emit(t, "Could not find WorkerW window") EXCEPT !.pc = "getdc"]

\* lines 94-96: report, and return through the finally block
NotFound(t) == [Emit(t, "Could not find WorkerW window") EXCEPT !.pc = "finally"]

\* lines 93-96: find_workerw() returns a window or None
run_find_workerw(s) ==
    /\ th[s].pc = "find"
    /\ \E found \in BOOLEAN : \E raises \in MayRaise :
          IF raises THEN Step(s, Raise(th[s], "find_workerw failed"))
          ELSE IF found
          THEN Step(s, [th[s] EXCEPT !.worker_w = TRUE, !.pc = "getdc"])
          ELSE Step(s, NotFound(th[s]))
    /\ UNCHANGED << acquired, released >>

\* line 98
run_GetWindowDC(s) ==
    /\ th[s].pc = "getdc"
    /\ \E raises \in MayRaise :
          IF raises
          THEN /\ Step(s, Raise(th[s], "GetWindowDC failed"))
               /\ UNCHANGED << acquired, released >>
          ELSE /\ Step(s, [th[s] EXCEPT !.held = @ \cup {"hwnd_dc"}, !.pc = "mkdc"])
               /\ Acquire("hwnd_dc")

\* line 99
run_CreateDCFromHandle(s) ==
    /\ th[s].pc = "mkdc"
    /\ \E raises \in MayRaise :
          IF raises
          THEN /\ Step(s, Raise(th[s], "CreateDCFromHandle failed"))
               /\ UNCHANGED << acquired, released >>
          ELSE /\ Step(s, [th[s] EXCEPT !.held = @ \cup {"mfc_dc"}, !.pc = "compat"])
               /\ Acquire("mfc_dc")

\* line 100
run_CreateCompatibleDC(s) ==
    /\ th[s].pc = "compat"
    /\ \E raises \in MayRaise :
          IF raises
          THEN /\ Step(s, Raise(th[s], "CreateCompatibleDC failed"))
               /\ UNCHANGED << acquired, released >>
          ELSE /\ Step(s, [th[s] EXCEPT !.held = @ \cup {"save_dc"}, !.pc = "monitors"])
               /\ Acquire("save_dc")

\* lines 102-106: min() of an empty sequence raises ValueError
run_get_monitors(s) ==
    /\ th[s].pc = "monitors"
    /\ \E raises \in MayRaise :
          IF raises THEN Step(s, Raise(th[s], "get_monitors failed"))
          ELSE IF os_monitors = <<>>
          THEN Step(s, Raise(th[s], "min() arg is an empty sequence"))
          ELSE Step(s, [th[s] EXCEPT !.min_x = MinX(os_monitors),
                                     !.min_y = MinY(os_monitors),
                                     !.total_width = TotalWidth(os_monitors),
                                     !.total_height = TotalHeight(os_monitors),
                                     !.pc = "bitmap"])
    /\ UNCHANGED << acquired, released >>

\* the statement of lines 108-110 that raises, if any
BitmapOutcomes ==
    IF lim.faults
    THEN {"ok", "CreateBitmap", "CreateCompatibleBitmap", "SelectObject"}
    ELSE {"ok"}

\* lines 108-110: line 108 binds bmp to a bitmap object, line 109 creates the
\* bitmap itself, line 110 selects it into save_dc
run_CreateBitmap(s) ==
    /\ th[s].pc = "bitmap"
    /\ \E o \in BitmapOutcomes :
          LET t == th[s]
              bound == [t EXCEPT !.bmp_obj = TRUE]
              made == [bound EXCEPT !.held = @ \cup {"bmp"}] IN
          IF o = "CreateBitmap"
          THEN /\ Step(s, Raise(t, "CreateBitmap failed"))
               /\ UNCHANGED << acquired, released >>
          ELSE IF o = "CreateCompatibleBitmap"
          THEN /\ Step(s, Raise(bound, "CreateCompatibleBitmap failed"))
               /\ UNCHANGED << acquired, released >>
          ELSE IF o = "SelectObject"
          THEN /\ Step(s, Raise(made, "SelectObject failed"))
               /\ Acquire("bmp")
          ELSE /\ Step(s, [made EXCEPT !.pc = "iter"])
               /\ Acquire("bmp")

\* The dict the thread iterates: self.monitor_config is the very object
\* self.monitor_configs of the manager (line 81, line 339), not a copy.
ThreadConfig(s) == monitor_configs

\* line 112: iter(self.monitor_config.items()) remembers the dict's size
run_iter(s) ==
    /\ th[s].pc = "iter"
    /\ Step(s, [th[s] EXCEPT !.it_size = Len(ThreadConfig(s)), !.it_idx = 0, !.pc = "next"])
    /\ UNCHANGED << acquired, released >>

\* line 113
HasPath(config) == config.video_path # EmptyPath

\* lines 112-113: the iterator's next(); a dict whose size changed raises
\* RuntimeError; otherwise the item currently stored at the position is bound
run_next(s) ==
    /\ th[s].pc = "next"
    /\ LET t == th[s]
           cfg == ThreadConfig(s) IN
       IF Len(cfg) # t.it_size
       THEN Step(s, Raise(t, "dictionary changed size during iteration"))
       ELSE IF t.it_idx >= Len(cfg)
       THEN Step(s, [t EXCEPT !.cur = NoItem, !.alias = FALSE, !.pc = "loop"])
       ELSE Step(s, [t EXCEPT !.cur = cfg[t.it_idx + 1], !.alias = TRUE,
                              !.it_idx = @ + 1,
                              !.pc = IF HasPath(cfg[t.it_idx + 1]) THEN "open" ELSE "next"])
    /\ UNCHANGED << acquired, released >>

NewCap(config, n) ==
    [ id |-> config.id, info |-> config.monitor_info, fps |-> config.fps,
      path |-> config.video_path,   \* the file the VideoCapture was opened on
      nframes |-> n,       \* decodable frames of the file
      pos |-> 0,           \* CAP_PROP_POS_FRAMES
      ndrawn |-> 0,        \* frames of this source blitted so far
      last |-> -1,         \* index of the frame blitted last
      clean |-> TRUE ]     \* no transient decode failure so far

\* an open failure that ends the session
OpenFailed_abort(t) == [Emit(t, "Could not open video") EXCEPT !.pc = "finally"]

\* lines 124-125: report, and go on with the next assignment
OpenFailed(t) == [Emit(t, "Could not open video") EXCEPT !.pc = "next"]

\* what raises in lines 114-123, if anything: the VideoCapture constructor,
\* or the building of the caps entry for a capture that opened
OpenOutcomes == IF lim.faults THEN {"ok", "VideoCapture", "entry"} ELSE {"ok"}

\* lines 114-125: n is the number of frames the file holds
run_open(s) ==
    /\ th[s].pc = "open"
    /\ \E o \in OpenOutcomes :
          LET t == th[s] IN
          IF o = "VideoCapture"
          THEN /\ Step(s, Raise(t, "VideoCapture failed"))
               /\ UNCHANGED << acquired, released >>
          ELSE IF o = "entry"
          THEN /\ IsOpened(t.cur.video_path)
               /\ Step(s, Raise([t EXCEPT !.nopened = @ + 1], "caps entry failed"))
               /\ Acquire("cap")
          ELSE /\ IF IsOpened(t.cur.video_path)
                  THEN \E n \in 0..lim.frames :
                          Step(s, [t EXCEPT !.caps = Append(@, NewCap(t.cur, n)),
                                            !.caps_open = TRUE, !.nopened = @ + 1,
                                            !.pc = "next"])
                  ELSE Step(s, OpenFailed(t))
               /\ Acquire("cap")

\* a loop test that does not read the flag
LoopContinues_ignoreflag(t) == t.caps # <<>>

\* line 128, and line 129 when the loop is entered
LoopContinues(t) == t.running /\ t.caps # <<>>

run_loop(s) ==
    /\ th[s].pc = "loop"
    /\ LET t == th[s] IN
       IF LoopContinues(t)
       THEN /\ t.ticks < lim.ticks
            /\ \E raises \in MayRaise :
                  IF raises THEN Step(s, Raise([t EXCEPT !.live = 0], "FillSolidRect failed"))
                  ELSE Step(s, [t EXCEPT !.cleared = TRUE, !.nclear = @ + 1,
                                        !.blitted = {}, !.skipped = {}, !.live = 0,
                                        !.ci = 1, !.pc = "read"])
       ELSE Step(s, [t EXCEPT !.live = 0, !.pc = "finally"])
    /\ UNCHANGED << acquired, released >>

\* a retry without the seek
SeekToStart_stay(pos) == pos

\* cap.set(cv2.CAP_PROP_POS_FRAMES, 0)
SeekToStart(pos) == 0

\* cap.read() at position pos of a file of n frames; `fails` is a transient
\* decode failure
ReadOnce(n, pos, fails) ==
    IF ~fails /\ pos < n
    THEN [ret |-> TRUE, frame |-> pos, pos |-> pos + 1]
    ELSE [ret |-> FALSE, frame |-> -1, pos |-> pos]

\* lines 136-141: read, and on failure seek to frame 0 and read once more
ReadWithRestart(n, pos, g) ==
    LET r1 == ReadOnce(n, pos, g # "none") IN
    IF r1.ret THEN r1 ELSE ReadOnce(n, SeekToStart(r1.pos), g = "both")

\* a break in place of the continue: the rest of the tick's sources is dropped
SkipSource_break(t, i) ==
    [t EXCEPT !.skipped = @ \cup {i}, !.ci = Len(t.caps) + 1, !.pc = "present"]

\* lines 140-141: continue with the next source of the tick
SkipSource(t, i) == [t EXCEPT !.skipped = @ \cup {i}]

\* lines 147-150: the destination rectangle of StretchDIBits for a source
DestRect(t, c) ==
    [x |-> c.info.x - t.min_x, y |-> c.info.y - t.min_y,
     width |-> c.info.width, height |-> c.info.height]

\* lines 143-157: convert and stretch the frame onto the monitor's rectangle
BlitFrame(t, i, frame) ==
    [t EXCEPT !.caps[i].ndrawn = @ + 1, !.caps[i].last = frame,
              !.blitted = @ \cup {i}, !.nblit = @ + 1]

\* a present inside the for loop, after each source
NextInTick_early(ci, n) == "present"

\* line 131: the for loop goes on to the next source; line 159 follows the
\* last one
NextInTick(ci, n) == IF ci = n THEN "present" ELSE "read"

\* what raises in lines 132-157, if anything: cap.read(), or the conversion
\* and the blit of a frame that was read
ReadOutcomes == IF lim.faults THEN {"ok", "read", "blit"} ELSE {"ok"}

\* lines 131-157 for the source at position ci of caps
run_read(s) ==
    /\ th[s].pc = "read"
    /\ LET t == th[s]
           c == t.caps[t.ci]
           nextpc == NextInTick(t.ci, Len(t.caps)) IN
       \E g \in {"none", "first", "both"} : \E o \in ReadOutcomes :
          /\ g # "none" => t.glitches < lim.glitches
          /\ LET r == ReadWithRestart(c.nframes, c.pos, g)
                 t1 == [t EXCEPT !.fps = c.fps, !.ci = @ + 1, !.pc = nextpc,
                                 !.glitches = IF g = "none" THEN @ ELSE @ + 1,
                                 !.caps[t.ci].pos = r.pos,
                                 !.caps[t.ci].clean = @ /\ g = "none"] IN
             IF o = "read"
             THEN g = "none" /\ Step(s, Raise([t EXCEPT !.fps = c.fps], "read failed"))
             ELSE IF o = "blit"
             THEN r.ret /\ Step(s, Raise(t1, "StretchDIBits failed"))
             ELSE IF r.ret
             THEN Step(s, BlitFrame(t1, t.ci, r.frame))
             ELSE Step(s, SkipSource(t1, t.ci))
    /\ UNCHANGED << acquired, released >>

\* a BitBlt whose failure is not caught at the call
PresentFailed_raise(t) == Raise([t EXCEPT !.present_ok = FALSE], "BitBlt failed")

\* lines 167-168: the failure of BitBlt is printed, nothing else
PresentFailed(t) == [t EXCEPT !.present_ok = FALSE]

\* lines 160-168: mfc_dc.BitBlt(...) inside its own try
Present(t, ok) ==
    LET t1 == [t EXCEPT !.npresent = @ + 1,
                        !.late = IF t.running THEN @ ELSE @ + 1] IN
    IF ok THEN [t1 EXCEPT !.present_ok = TRUE]
    ELSE PresentFailed([t1 EXCEPT !.glitches = @ + 1])

\* lines 171-173: once a second has passed, the local fps is emitted
LiveRate(t, elapsed) == IF elapsed THEN [t EXCEPT !.live = t.fps] ELSE t

\* line 175: cv2.waitKey(int(1000 / fps)), the end of the tick
Pace(t) ==
    [t EXCEPT !.sleep = PacingInterval(t.fps), !.ticks = @ + 1,
              !.cleared = FALSE, !.pc = "loop"]

\* lines 159-175: present, report the live rate, pace
run_present(s) ==
    /\ th[s].pc = "present"
    /\ \E ok \in BOOLEAN : \E elapsed \in BOOLEAN : \E raises \in MayRaise :
          /\ ~ok => th[s].glitches < lim.glitches
          /\ LET t1 == Present(th[s], ok) IN
             IF t1.pc # "present" THEN Step(s, t1)
             ELSE IF raises THEN Step(s, Raise(LiveRate(t1, elapsed), "waitKey failed"))
             ELSE Step(s, Pace(LiveRate(t1, elapsed)))
    /\ UNCHANGED << acquired, released >>

\* the next resource the finally block releases, or "none"
NextRelease(t) ==
    IF \E i \in 1..Len(FinallyOrder) : MustRelease(t, FinallyOrder[i])
    THEN FinallyOrder[CHOOSE i \in 1..Len(FinallyOrder) :
                         /\ MustRelease(t, FinallyOrder[i])
                         /\ \A j \in 1..(i - 1) : ~MustRelease(t, FinallyOrder[j])]
    ELSE "none"

\* lines 180-190, one release at a time; run() returns after the last
run_finally(s) ==
    /\ th[s].pc = "finally"
    /\ LET t == th[s]
           k == NextRelease(t) IN
       IF k = "none"
       THEN /\ Step(s, [t EXCEPT !.pc = "returned"])
            /\ UNCHANGED << acquired, released >>
       ELSE IF k = "bmp" /\ "bmp" \notin t.held
       THEN \* win32gui.DeleteObject on the handle of a bitmap object whose
            \* bitmap was never created: the call returns or raises
            /\ \E raises \in BOOLEAN :
                  Step(s, [t EXCEPT !.bmp_obj = FALSE,
                                    !.pc = IF raises THEN "escaped" ELSE @])
            /\ UNCHANGED << acquired, released >>
       ELSE /\ Step(s, IF k = "cap" THEN [t EXCEPT !.caps_open = FALSE]
                       ELSE IF k = "bmp" THEN [t EXCEPT !.held = @ \ {k}, !.bmp_obj = FALSE]
                       ELSE [t EXCEPT !.held = @ \ {k}])
            /\ released' = [released EXCEPT ![k] = @ + (IF k = "cap" THEN Len(t.caps) ELSE 1)]
            /\ UNCHANGED acquired

\* run() has returned and its locals are gone: the thread object keeps its
\* attributes, the operating system whatever was not released
Finished(t) ==
    [NoThread EXCEPT !.pc = "finished", !.running = t.running, !.stopped = t.stopped,
                     !.held = t.held, !.caps_open = t.caps_open]

\* QThread marks the thread finished after run() has returned
thread_finished(s) ==
    /\ th[s].pc = "returned"
    /\ Step(s, Finished(th[s]))
    /\ UNCHANGED << acquired, released >>

\* ------------------------------------------------------ specification
\* the "Select Video" button of a monitor, with a file picked in the dialog
on_select_video ==
    \E mid \in DOMAIN monitor_widgets : \E p \in {GoodPath, BadPath} : select_video(mid, p)

\* a change of an FPS combo box
on_update_fps ==
    \E mid \in DOMAIN monitor_widgets : \E f \in FpsItems : update_fps(mid, f)

Next ==
    \/ start_wallpapers
    \/ stop_wallpapers
    \/ wait_returns
    \/ on_select_video
    \/ on_update_fps
    \/ \E s \in Sessions : run_find_workerw(s)
    \/ \E s \in Sessions : run_GetWindowDC(s)
    \/ \E s \in Sessions : run_CreateDCFromHandle(s)
    \/ \E s \in Sessions : run_CreateCompatibleDC(s)
    \/ \E s \in Sessions : run_get_monitors(s)
    \/ \E s \in Sessions : run_CreateBitmap(s)
    \/ \E s \in Sessions : run_iter(s)
    \/ \E s \in Sessions : run_next(s)
    \/ \E s \in Sessions : run_open(s)
    \/ \E s \in Sessions : run_loop(s)
    \/ \E s \in Sessions : run_read(s)
    \/ \E s \in Sessions : run_present(s)
    \/ \E s \in Sessions : run_finally(s)
    \/ \E s \in Sessions : thread_finished(s)

Spec == Init /\ [][Next]_vars

\* one session played in depth: the same operations without the edits
NextPlayback ==
    \/ start_wallpapers
    \/ stop_wallpapers
    \/ wait_returns
    \/ \E s \in Sessions : run_find_workerw(s)
    \/ \E s \in Sessions : run_GetWindowDC(s)
    \/ \E s \in Sessions : run_CreateDCFromHandle(s)
    \/ \E s \in Sessions : run_CreateCompatibleDC(s)
    \/ \E s \in Sessions : run_get_monitors(s)
    \/ \E s \in Sessions : run_CreateBitmap(s)
    \/ \E s \in Sessions : run_iter(s)
    \/ \E s \in Sessions : run_next(s)
    \/ \E s \in Sessions : run_open(s)
    \/ \E s \in Sessions : run_loop(s)
    \/ \E s \in Sessions : run_read(s)
    \/ \E s \in Sessions : run_present(s)
    \/ \E s \in Sessions : run_finally(s)
    \/ \E s \in Sessions : thread_finished(s)

SpecPlayback == InitPlayback /\ [][NextPlayback]_vars

\* a step of a rendering thread: the statement its run() is at
RenderingStep ==
    \E s \in Sessions :
        \/ run_find_workerw(s)
        \/ run_GetWindowDC(s)
        \/ run_CreateDCFromHandle(s)
        \/ run_CreateCompatibleDC(s)
        \/ run_get_monitors(s)
        \/ run_CreateBitmap(s)
        \/ run_iter(s)
        \/ run_next(s)
        \/ run_open(s)
        \/ run_loop(s)
        \/ run_read(s)
        \/ run_present(s)
        \/ run_finally(s)
        \/ thread_finished(s)

\* the operating system keeps scheduling a started thread, and every call
\* run() makes returns
\* short sessions in which any call of run() may raise
SpecFaults == InitFaults /\ [][NextPlayback]_vars

SpecStop == InitStop /\ [][NextPlayback]_vars /\ WF_vars(RenderingStep)

\* the start of a session up to the bounding box of lines 102-106
NextGeometry ==
    \/ start_wallpapers
    \/ \E s \in Sessions : run_find_workerw(s)
    \/ \E s \in Sessions : run_GetWindowDC(s)
    \/ \E s \in Sessions : run_CreateDCFromHandle(s)
    \/ \E s \in Sessions : run_CreateCompatibleDC(s)
    \/ \E s \in Sessions : run_get_monitors(s)

SpecGeometry == InitGeometry /\ [][NextGeometry]_vars

\* ------------------------------------------------------------ claims
Alive(s) == th[s].pc \notin {"none", "finished"}
NoThreadAlive == \A s \in Sessions : ~Alive(s)

\* C1: whenever no rendering thread is alive, every drawing resource kind
\* (window DC, wrapped DC, compatible DC, bitmap) has been released as often
\* as it was acquired.
C1_NoLeakWhenIdle ==
    NoThreadAlive => \A k \in Kinds : acquired[k] = released[k]

\* two sessions were started and both created and released their bitmap
C1_Witness ==
    /\ NoThreadAlive
    /\ nstarts = 2
    /\ acquired["bmp"] = 2
    /\ released["bmp"] = 2

\* C2: in every state where stop() has returned for a thread, that thread is
\* terminated and holds no device context, bitmap or video source, so a start
\* issued next finds nothing of the previous session.
C2_StopJoins ==
    \A s \in Sessions :
        th[s].stopped =>
            /\ th[s].pc = "finished"
            /\ th[s].held = {}
            /\ ~th[s].caps_open

\* stop() has returned for a session that had opened a source, and the session
\* started right after it holds its own window DC
C2_Witness ==
    /\ th[1].stopped
    /\ released["cap"] >= 1
    /\ video_player = 2
    /\ th[2].held = {"hwnd_dc"}

\* C3: at most one rendering thread is alive at any time, and no two sessions
\* hold drawing handles at the same time.
C3_OneSession ==
    \A s, t \in Sessions :
        s # t =>
            /\ ~(Alive(s) /\ Alive(t))
            /\ ~(th[s].held # {} /\ th[t].held # {})

\* a second session renders after start_wallpapers stopped the first one
C3_Witness ==
    /\ th[1].stopped
    /\ th[1].pc = "finished"
    /\ th[2].pc = "present"
    /\ th[2].held = Kinds

NoTick(t) == t.nclear = 0 /\ t.nblit = 0 /\ t.npresent = 0

\* C4 (as claimed): a session that ends with no source opened ran no tick and
\* reported an error.
C4_NoSourcesReported ==
    \A s \in Sessions :
        (th[s].pc = "returned" /\ th[s].caps = <<>>) =>
            (NoTick(th[s]) /\ th[s].errors # <<>>)

\* C5: when find_workerw() finds no window the session reports exactly that
\* error, goes straight to its end, never ticks and holds no device context,
\* bitmap or video source.
C5_DesktopNotFound ==
    \A s \in Sessions :
        (th[s].pc \notin {"none", "find", "finished"} /\ ~th[s].worker_w) =>
            /\ th[s].pc \in {"finally", "returned"}
            /\ th[s].errors = << "Could not find WorkerW window" >>
            /\ NoTick(th[s])
            /\ th[s].held = {}
            /\ th[s].caps = <<>>
            /\ ~th[s].caps_open

\* run() has returned after the locator found nothing
C5_Witness ==
    \E s \in Sessions :
        /\ th[s].pc = "returned"
        /\ ~th[s].worker_w
        /\ th[s].errors = << "Could not find WorkerW window" >>

\* the assignments of cfg that run() opens, and those it fails to open
Openable(cfg) == { i \in 1..Len(cfg) : HasPath(cfg[i]) /\ IsOpened(cfg[i].video_path) }
Unopenable(cfg) == { i \in 1..Len(cfg) : HasPath(cfg[i]) /\ ~IsOpened(cfg[i].video_path) }

OpenErrors(t) == { i \in 1..Len(t.errors) : t.errors[i] = "Could not open video" }

\* the session was ended by a failure other than a source that did not open
Aborted(t) == \E i \in 1..Len(t.errors) : t.errors[i] # "Could not open video"

\* the sources of the tick in progress that have been handled so far
Handled(t) == IF t.pc = "present" THEN 1..Len(t.caps) ELSE 1..(t.ci - 1)

\* C6: with the assignments fixed, once the sources are opened there is one
\* error report per file that did not open, the open sources are exactly the
\* assignments whose file opens, each of them is handled in every tick and
\* blitted whenever its read succeeds, and a session that was not asked to
\* stop and has a file that opens never ends because of an open failure.
C6_OpenFailureIsolated ==
    \A s \in Sessions :
        LET t == th[s] IN
        /\ t.pc \in {"loop", "read", "present"} =>
              /\ Cardinality(OpenErrors(t)) = Cardinality(Unopenable(monitor_configs))
              /\ Len(t.caps) = Cardinality(Openable(monitor_configs))
              /\ \A i \in 1..Len(t.caps) :
                    \E j \in Openable(monitor_configs) : monitor_configs[j].id = t.caps[i].id
        /\ t.pc \in {"read", "present"} =>
              /\ t.blitted \cup t.skipped = Handled(t)
              /\ \A i \in Handled(t) :
                    (t.caps[i].nframes > 0 /\ t.caps[i].clean) => i \in t.blitted
        /\ (t.pc \in {"finally", "returned"} /\ t.running
                /\ Openable(monitor_configs) # {}) => Aborted(t)

\* a tick that blitted the one source that opened, after the failure of the
\* other was reported
C6_Witness ==
    \E s \in Sessions :
        /\ th[s].pc = "present"
        /\ Len(th[s].caps) = 1
        /\ th[s].blitted = {1}
        /\ th[s].errors = << "Could not open video" >>

\* C7: a source of at least two frames whose reads fail only at end-of-stream
\* is drawn in every tick, and the k-th frame drawn is frame (k-1) mod n:
\* at end-of-stream the retry after the seek delivers frame 0.
C7_LoopRestart ==
    \A s \in Sessions :
        LET t == th[s] IN
        \A i \in 1..Len(t.caps) :
            LET c == t.caps[i] IN
            (c.nframes >= 2 /\ c.clean) =>
                /\ i \notin t.skipped
                /\ c.ndrawn = t.ticks + (IF t.pc \in {"read", "present"} /\ i \in Handled(t)
                                         THEN 1 ELSE 0)
                /\ c.ndrawn > 0 => c.last = (c.ndrawn - 1) % c.nframes
                /\ c.pos = (IF c.ndrawn = 0 THEN 0 ELSE c.last + 1)

\* a source of two frames drawn three times: frame 0 again after the restart
C7_Witness ==
    \E s \in Sessions :
        \E i \in 1..Len(th[s].caps) :
            /\ th[s].caps[i].nframes = 2
            /\ th[s].caps[i].clean
            /\ th[s].caps[i].ndrawn = 3
            /\ th[s].caps[i].last = 0

CapIds(t) == [i \in 1..Len(t.caps) |-> t.caps[i].id]

\* C8: in the playback loop a skipped source is not blitted in that tick, the
\* tick goes on to the remaining sources, every tick handles every open source
\* again, and no step of the loop changes or closes the open sources.
C8_SkipKeepsSource ==
    [][ \A s \in Sessions :
          LET t == th[s]
              u == th'[s] IN
          t.pc \in {"loop", "read", "present"} =>
              /\ CapIds(u) = CapIds(t)
              /\ u.caps_open = (t.caps # <<>>)
              /\ u.pc = "present" => u.blitted \cup u.skipped = 1..Len(u.caps)
              /\ u.blitted \cap u.skipped = {}
              /\ (t.pc = "read" /\ u # t /\ t.ci \in u.skipped) =>
                    /\ t.ci \notin u.blitted
                    /\ u.caps[t.ci].ndrawn = t.caps[t.ci].ndrawn
                    /\ u.ci = t.ci + 1
                    /\ u.pc = (IF t.ci = Len(t.caps) THEN "present" ELSE "read")
              /\ (t.pc = "loop" /\ u.pc = "read") => (u.ci = 1 /\ u.skipped = {})
      ]_vars

\* the first source, drawn in an earlier tick, is skipped in this one while
\* the second is blitted
C8_Witness ==
    \E s \in Sessions :
        /\ th[s].pc = "present"
        /\ Len(th[s].caps) = 2
        /\ th[s].skipped = {1}
        /\ th[s].blitted = {2}
        /\ th[s].caps[1].ndrawn >= 1

\* C9 (as claimed): every source of a session was opened on the path, with the
\* geometry and the rate that its assignment had when the session was started,
\* and no session fails because the assignments changed under it.
C9_SessionUsesSnapshot ==
    \A s \in Sessions :
        LET t == th[s] IN
        /\ \A i \in 1..Len(t.caps) :
              \E j \in 1..Len(t.snapshot) :
                  /\ t.snapshot[j].id = t.caps[i].id
                  /\ t.snapshot[j].video_path = t.caps[i].path
                  /\ t.snapshot[j].monitor_info = t.caps[i].info
                  /\ t.snapshot[j].fps = t.caps[i].fps
        /\ \A i \in 1..Len(t.errors) :
              t.errors[i] # "dictionary changed size during iteration"

\* the identifiers of the monitors get_monitors() enumerates
EnumeratedIds == { MonitorId(os_monitors[i].handle) : i \in 1..Len(os_monitors) }

\* C10 (as claimed): no source is opened, and so none is blitted, for an
\* assignment whose monitor is not among the enumerated ones.
C10_StaleAssignmentSkipped ==
    \A s \in Sessions :
        \A i \in 1..Len(th[s].caps) : th[s].caps[i].id \in EnumeratedIds

\* C11 (as claimed): a session that finds the desktop window while no monitor
\* is enumerated is a no-op: it runs no tick, reports no error, and has
\* released every device context by the time run() returns.
C11_NoMonitorsNoOp ==
    \A s \in Sessions :
        LET t == th[s] IN
        (os_monitors = <<>> /\ t.worker_w /\ t.pc \in {"finally", "returned"}) =>
            /\ NoTick(t)
            /\ t.errors = <<>>
            /\ t.pc = "returned" => t.held = {}

\* C12 (as claimed): when no rendering thread is alive, every VideoCapture a
\* session created, opened or not, has been released exactly once.
C12_EveryCaptureReleased ==
    NoThreadAlive => released["cap"] = acquired["cap"]

\* C13: a BitBlt that raises does not end the session: the step that presents
\* still paces and ends the tick, reports no error, releases nothing and
\* leaves the sources and the surface as they were; unless a stop was
\* requested the next tick then begins on the same sources.
C13_PresentFailureSurvived ==
    [][ \A s \in Sessions :
          LET t == th[s]
              u == th'[s] IN
          /\ (t.pc = "present" /\ u.npresent = t.npresent + 1 /\ ~u.present_ok) =>
                /\ u.pc = "loop"
                /\ u.ticks = t.ticks + 1
                /\ u.sleep = PacingInterval(t.fps)
                /\ u.caps = t.caps
                /\ u.caps_open /\ t.caps_open
                /\ u.held = Kinds /\ t.held = Kinds
                /\ u.total_width = t.total_width /\ u.total_height = t.total_height
                /\ u.errors = t.errors
                /\ released' = released
          /\ (t.pc = "loop" /\ ~t.present_ok /\ u.pc # "loop") =>
                IF t.running
                THEN u.pc = "read" /\ u.cleared /\ u.caps = t.caps /\ u.held = Kinds
                ELSE u.pc = "finally"
      ]_vars

\* a tick is under way after the BitBlt of the tick before it failed
C13_Witness ==
    \E s \in Sessions :
        /\ th[s].pc = "read"
        /\ ~th[s].present_ok
        /\ th[s].ticks >= 1
        /\ th[s].held = Kinds
        /\ th[s].caps_open

\* C14: once the bounding box is computed for the enumerated monitors, its
\* width is the greatest right edge minus the smallest x and its height the
\* greatest bottom edge minus the smallest y; both are at least the size of
\* every monitor.
C14_BoundingBox ==
    \A s \in Sessions :
        th[s].pc = "bitmap" =>
            LET idx == 1..Len(os_monitors)
                left == MinOf({ os_monitors[i].x : i \in idx })
                right == MaxOf({ os_monitors[i].x + os_monitors[i].width : i \in idx })
                top == MinOf({ os_monitors[i].y : i \in idx })
                bottom == MaxOf({ os_monitors[i].y + os_monitors[i].height : i \in idx }) IN
            /\ th[s].total_width = right - left
            /\ th[s].total_height = bottom - top
            /\ \A i \in idx : /\ os_monitors[i].width <= th[s].total_width
                              /\ os_monitors[i].height <= th[s].total_height

\* three monitors in a row, the leftmost at a negative x, spanning more than
\* the widest of them
C14_Witness ==
    \E s \in Sessions :
        /\ th[s].pc = "bitmap"
        /\ Len(os_monitors) = 3
        /\ th[s].min_x < 0
        /\ th[s].total_width = 4
        /\ th[s].total_height = 1

\* C15: in every tick the surface is cleared first, then the open sources are
\* handled in the order of caps, each blitted or skipped, and only then the
\* surface is presented: a clear happens only when the tick before it was
\* presented, a blit only on a cleared surface and for the next source in
\* order, a present only when every source was handled, and nothing is
\* cleared or blitted between the last source and the present; every tick
\* has one clear and one present.
C15_TickOrder ==
    [][ \A s \in Sessions :
          LET t == th[s]
              u == th'[s] IN
          /\ u.nclear = t.nclear + 1 =>
                /\ t.pc = "loop" /\ ~t.cleared
                /\ t.npresent = t.nclear
                /\ u.pc = "read" /\ u.cleared
                /\ u.blitted = {} /\ u.skipped = {}
          /\ u.nblit = t.nblit + 1 =>
                /\ t.pc = "read" /\ t.cleared
                /\ t.blitted \cup t.skipped = 1..(t.ci - 1)
                /\ u.blitted = t.blitted \cup {t.ci}
                /\ u.npresent = t.npresent
          /\ u.npresent = t.npresent + 1 =>
                /\ t.pc = "present" /\ t.cleared
                /\ t.blitted \cup t.skipped = 1..Len(t.caps)
                /\ t.npresent = t.nclear - 1
                /\ u.nclear = t.nclear /\ u.nblit = t.nblit
                /\ ~u.cleared
          /\ t.pc = "present" => (u.nclear = t.nclear /\ u.nblit = t.nblit)
          /\ u.nclear = u.npresent + (IF u.cleared THEN 1 ELSE 0)
      ]_vars

\* a tick that cleared once, blitted both of its sources and presented once
C15_Witness ==
    \E s \in Sessions :
        /\ th[s].pc = "loop"
        /\ th[s].nclear = 1
        /\ th[s].npresent = 1
        /\ th[s].blitted = {1, 2}
        /\ th[s].nblit = 2

\* C16: a thread whose running flag was cleared eventually finishes, with
\* every device context, the bitmap and the sources released; while the flag
\* is cleared no tick is begun, and at most one present is made after the
\* flag was cleared.
C16_StopTerminates ==
    /\ \A s \in Sessions :
          (Alive(s) /\ ~th[s].running)
              ~> (th[s].pc = "finished" /\ th[s].held = {} /\ ~th[s].caps_open)
    /\ [][ \A s \in Sessions :
             (Alive(s) /\ ~th[s].running) =>
                 /\ th'[s].nclear <= th[s].nclear
                 /\ th'[s].late <= 1
                 /\ ~th'[s].running
         ]_vars

\* run() has returned after a stop that arrived in the middle of a tick: that
\* tick was presented, no other was begun, and everything is released
C16_Witness ==
    \E s \in Sessions :
        /\ th[s].pc = "returned"
        /\ ~th[s].running
        /\ th[s].late = 1
        /\ th[s].nclear = th[s].npresent
        /\ th[s].held = {}
        /\ ~th[s].caps_open

\* C17 (as claimed): once a call of run() has raised, the session is on its
\* way out through the finally block and no exception leaves run(); the
\* failure was reported exactly once, nothing is cleared, blitted, presented
\* or reported after it, and when run() returns every device context and
\* the bitmap are released and every source that was opened has been
\* released with caps.
C17_FailureContained ==
    [][ \A s \in Sessions :
          LET t == th[s]
              u == th'[s] IN
          u.fault # "none" =>
              /\ u.pc \in {"finally", "returned"}
              /\ Cardinality({ i \in 1..Len(u.errors) : u.errors[i] = u.fault }) = 1
              /\ t.fault # "none" =>
                    /\ u.errors = t.errors
                    /\ u.nclear = t.nclear /\ u.nblit = t.nblit
                    /\ u.npresent = t.npresent
              /\ u.pc = "returned" =>
                    /\ u.held = {}
                    /\ ~u.caps_open
                    /\ Len(u.caps) = u.nopened
      ]_vars

\* C18 (as claimed): the drawing resources are acquired in the order window
\* DC, wrapped DC, compatible DC, bitmap and released in the reverse order,
\* so at no time is a resource held while one acquired before it is not:
\* the bitmap goes before the compatible DC, the compatible DC before the
\* window DC.
C18_ReverseRelease ==
    \A s \in Sessions :
        \A i \in 1..Len(AcquireOrder) :
            AcquireOrder[i] \in th[s].held =>
                \A j \in 1..(i - 1) : AcquireOrder[j] \in th[s].held

\* C19: when a tick has ended, the interval it waited is the integer part of
\* 1000 divided by the rate of the last open source in the order of caps,
\* whether or not that source was drawn in the tick: 41, 33, 16 and 8
\* milliseconds for 24, 30, 60 and 120; a live rate reported by the tick is
\* that same rate.
C19_PacingInterval ==
    \A s \in Sessions :
        LET t == th[s] IN
        (t.pc = "loop" /\ t.ticks > 0) =>
            LET rate == t.caps[Len(t.caps)].fps IN
            /\ t.sleep * rate <= 1000
            /\ 1000 < (t.sleep + 1) * rate
            /\ rate = 24 => t.sleep = 41
            /\ rate = 30 => t.sleep = 33
            /\ rate = 60 => t.sleep = 16
            /\ rate = 120 => t.sleep = 8
            /\ t.live \in {0, rate}

\* a tick over a 60 and a 24 frames-per-second source that skipped the latter
\* waited 41 ms and reported 24
C19_Witness ==
    \E s \in Sessions :
        /\ th[s].pc = "loop"
        /\ Len(th[s].caps) = 2
        /\ th[s].caps[1].fps = 60
        /\ th[s].caps[2].fps = 24
        /\ 1 \in th[s].blitted
        /\ 2 \in th[s].skipped
        /\ th[s].sleep = 41
        /\ th[s].live = 24

\* C20 (as claimed): the destination rectangle of every blit lies inside the
\* composition surface: its origin is not negative and its right and bottom
\* edges do not exceed the width and height of the bounding box.
C20_BlitInsideSurface ==
    \A s \in Sessions :
        LET t == th[s] IN
        \A i \in t.blitted :
            LET r == DestRect(t, t.caps[i]) IN
            /\ r.x >= 0
            /\ r.y >= 0
            /\ r.x + r.width <= t.total_width
            /\ r.y + r.height <= t.total_height

====
